---- MODULE Spec2Model ----
(***************************************************************************)
(* The numeric input state engine of                                       *)
(* packages/@react-stately/numberfield/src/useNumberFieldState.ts.         *)
(*                                                                         *)
(* Numbers are exact decimals in fixed point: the integer X stands for the *)
(* number X / Scale.  Binary rounding of doubles is not modelled, so every *)
(* statement about arithmetic is a statement about exact decimals.  NaN is *)
(* a reserved integer and every numeric helper propagates it the way       *)
(* JavaScript does.  Strings are sequences of characters, each character a *)
(* one-token string.                                                       *)
(***************************************************************************)
EXTENDS Integers, Sequences, FiniteSets, TLC

VARIABLES
    minValue,           \* props.minValue (MIN_SAFE_INTEGER when not given)
    maxValue,           \* props.maxValue (MAX_SAFE_INTEGER when not given)
    step,               \* props.step (NaN when not given)
    controlled,         \* TRUE when props.value is supplied
    formatStyle,        \* props.formatOptions, as the style they select
    locale,             \* the numbering system of the locale in use
    startValue,         \* props.value / props.defaultValue at mount
    numberValue,        \* state.value
    inputValue,         \* state.inputValue
    tempNum,            \* tempNum.current, the pending parsed value
    currentNumeralSystem,
    lastValDispatched,  \* lastValDispatched.current
    notified,           \* the values onChange received during the last operation
    lastOp,             \* history: the operation that produced this state
    lastText,           \* history: the argument of the last setValue
    valueBefore,        \* history: state.value before the last operation
    tempBefore,         \* history: tempNum.current before the last operation
    committedBefore,    \* history: the display was the formatted value before it
    passed,             \* history: the values smartOnChange was called with
    lastSystem,         \* history: what determineNumeralSystem returned
    streak,             \* history: increments in a row since the field was empty
    decOp, decA, decB, decResult   \* operands and result of handleDecimalOperation

vars == <<minValue, maxValue, step, controlled, formatStyle, locale, startValue,
          numberValue, inputValue, tempNum, currentNumeralSystem,
          lastValDispatched, notified, lastOp, lastText, valueBefore, tempBefore,
          committedBefore, passed, lastSystem, streak, decOp, decA, decB,
          decResult>>

engineVars == <<minValue, maxValue, step, controlled, formatStyle, locale,
                startValue, numberValue, inputValue, tempNum,
                currentNumeralSystem, lastValDispatched, notified, lastOp,
                lastText, valueBefore, tempBefore, committedBefore, passed,
                lastSystem, streak>>

decVars == <<decOp, decA, decB, decResult>>

(***************************************************************************)
(* Numbers                                                                 *)
(***************************************************************************)

\* Number.prototype.toString writes x in fixed notation when |x| >= 10^-6
\* and in exponent notation ("1e-7") below that.
FixedNotationDigits == 6

\* One unit is 10^-(FixedNotationDigits + 1), the largest power of ten that
\* toString writes in exponent notation.
FracDigits == FixedNotationDigits + 1

Scale == 10^FracDigits

NaN == -2147483647

isNaN(x) == x = NaN

\* Stand-in for Number.MAX_SAFE_INTEGER: larger than every bound, value and
\* typed number of the model.
MAX_SAFE_INTEGER == 15 * Scale

MIN_SAFE_INTEGER == -MAX_SAFE_INTEGER

Abs(x) == IF x < 0 THEN -x ELSE x

\* Math.round(n / d) for d > 0: halves go towards +Infinity.
RoundDiv(n, d) == (2 * n + d) \div (2 * d)

Pow10(n) == 10^n

(***************************************************************************)
(* Strings                                                                 *)
(***************************************************************************)

numberingSystems ==
    [arab    |-> <<"ar0", "ar1", "ar2", "ar3", "ar4", "ar5", "ar6", "ar7", "ar8", "ar9">>,
     hanidec |-> <<"han0", "han1", "han2", "han3", "han4", "han5", "han6", "han7", "han8", "han9">>,
     latin   |-> <<"0", "1", "2", "3", "4", "5", "6", "7", "8", "9">>]

\* for (let system in numberingSystems): the keys in insertion order
SystemOrder == <<"arab", "hanidec", "latin">>

Range(s) == {s[i] : i \in 1..Len(s)}

RECURSIVE Concat(_)
Concat(ss) == IF ss = <<>> THEN <<>> ELSE Head(ss) \o Concat(Tail(ss))

\* String.prototype.indexOf, 0-based; the empty needle is found at 0
IndexOf(val, char) ==
    IF char = <<>> THEN 0
    ELSE IF \E i \in 1..Len(val) : val[i] = char[1]
         THEN (CHOOSE i \in 1..Len(val) :
                  val[i] = char[1] /\ \A j \in 1..(i - 1) : val[j] # char[1]) - 1
         ELSE -1

\* val.substring(from, to), 0-based, both ends cut to the string
Substring(val, from, to) ==
    LET cut(k) == IF k < 0 THEN 0 ELSE IF k > Len(val) THEN Len(val) ELSE k
    IN  IF cut(from) >= cut(to) THEN <<>> ELSE SubSeq(val, cut(from) + 1, cut(to))

\* val.substring(from)
SubstringFrom(val, from) == Substring(val, from, Len(val))

\* val.replace(char, ''): a string pattern replaces its first occurrence only
ReplaceFirst(val, char) ==
    LET i == IndexOf(val, char)
    IN  IF char = <<>> \/ i = -1 THEN val
        ELSE Substring(val, 0, i) \o SubstringFrom(val, i + 1)

\* val.replace(new RegExp(`[^...]`, 'g'), ''): keep the characters of a class
KeepOnly(val, class) == SelectSeq(val, LAMBDA c : c \in class)

\* val.replace(new RegExp(`[...]`, 'g'), ''): drop the characters of a class
DropAll(val, class) == SelectSeq(val, LAMBDA c : c \notin class)

(***************************************************************************)
(* The number formatter (Intl.NumberFormat).  formatStyle is one of          *)
(*   "decimal"     no formatOptions                                          *)
(*   "signed"      {signDisplay: 'always'}                                   *)
(*   "percent"     {style: 'percent'}                                        *)
(*   "accounting"  {style: 'currency', currency: 'USD',                      *)
(*                  currencySign: 'accounting'}                              *)
(* and locale is the numbering system the locale writes numbers in.        *)
(***************************************************************************)

\* maximumFractionDigits of the decimal style
MaxFractionDigits == 3

\* minimumFractionDigits and maximumFractionDigits of a currency in dollars
CurrencyFractionDigits == 2

\* a percentage shows the value multiplied by 10^2, without a fraction
PercentShift == 2

Digit(d) == numberingSystems.latin[d + 1]

\* the digit d as the locale writes it
LocaleDigit(d) == numberingSystems[locale][d + 1]

\* the decimal and the group separator of the locale
LocaleDecimal == IF locale = "arab" THEN "ar." ELSE "."

LocaleGroup == IF locale = "arab" THEN "ar," ELSE ","

\* the symbol the locale writes for NaN
LocaleNaN == IF locale = "arab" THEN <<"ar-NaN">> ELSE <<"N", "a", "N">>

RECURSIVE IntegerDigits(_)
IntegerDigits(n) ==
    IF n < 10 THEN <<LocaleDigit(n)>>
    ELSE IntegerDigits(n \div 10) \o <<LocaleDigit(n % 10)>>

\* the digits of n / 10^width after the decimal point, trailing zeros dropped
RECURSIVE FractionDigits(_, _)
FractionDigits(n, width) ==
    IF n = 0 \/ width = 0 THEN <<>>
    ELSE <<LocaleDigit(n \div Pow10(width - 1))>>
             \o FractionDigits(n % Pow10(width - 1), width - 1)

\* the digits of n / 10^width after the decimal point, all of them
RECURSIVE PaddedFractionDigits(_, _)
PaddedFractionDigits(n, width) ==
    IF width = 0 THEN <<>>
    ELSE <<LocaleDigit(n \div Pow10(width - 1))>>
             \o PaddedFractionDigits(n % Pow10(width - 1), width - 1)

\* the parts of a number: what stands before it, its digits rounded to the
\* places the style shows (halves away from zero), what stands after it.
\* No value of the model reaches 1000, so no group separator is produced.
numberParts(value) ==
    LET places  == IF formatStyle = "percent" THEN 0
                   ELSE IF formatStyle = "accounting" THEN CurrencyFractionDigits
                   ELSE MaxFractionDigits
        shift   == IF formatStyle = "percent" THEN PercentShift ELSE 0
        quantum == Scale \div Pow10(places + shift)
        rounded == (Abs(value) + quantum \div 2) \div quantum
        frac    == IF formatStyle = "accounting"
                   THEN PaddedFractionDigits(rounded % Pow10(places), places)
                   ELSE FractionDigits(rounded % Pow10(places), places)
    IN  <<[type |-> "integer", value |-> IntegerDigits(rounded \div Pow10(places))]>>
        \o (IF frac = <<>> THEN <<>>
            ELSE <<[type |-> "decimal", value |-> <<LocaleDecimal>>],
                   [type |-> "fraction", value |-> frac]>>)

\* the parts the style puts around the parts of a number
styledParts(negative, parts) ==
    IF formatStyle = "accounting"
    THEN (IF negative THEN <<[type |-> "literal", value |-> <<"(">>]>> ELSE <<>>)
         \o <<[type |-> "currency", value |-> <<"$">>]>>
         \o parts
         \o (IF negative THEN <<[type |-> "literal", value |-> <<")">>]>> ELSE <<>>)
    ELSE (IF negative THEN <<[type |-> "minusSign", value |-> <<"-">>]>>
          ELSE IF formatStyle = "signed" THEN <<[type |-> "plusSign", value |-> <<"+">>]>>
          ELSE <<>>)
         \o parts
         \o (IF formatStyle = "percent"
             THEN <<[type |-> "percentSign", value |-> <<"%">>]>> ELSE <<>>)

\* inputValueFormatter.formatToParts(value)
formatToParts(value) ==
    IF isNaN(value)
    THEN styledParts(FALSE, <<[type |-> "nan", value |-> LocaleNaN]>>)
    ELSE styledParts(value < 0, numberParts(value))

\* inputValueFormatter.format(value)
format(value) ==
    LET parts == formatToParts(value)
    IN  Concat([i \in 1..Len(parts) |-> parts[i].value])

\* isNaN(n) ? '' : inputValueFormatter.format(n)
formatOrEmpty(value) == IF isNaN(value) THEN <<>> ELSE format(value)

\* the digits of 1000.1 as the style shows them, with the group separator
probeNumberParts ==
    IF formatStyle = "percent"
    THEN <<[type |-> "integer", value |-> <<LocaleDigit(1), LocaleDigit(0), LocaleDigit(0)>>],
           [type |-> "group",   value |-> <<LocaleGroup>>],
           [type |-> "integer", value |-> <<LocaleDigit(0), LocaleDigit(1), LocaleDigit(0)>>]>>
    ELSE <<[type |-> "integer",  value |-> <<LocaleDigit(1)>>],
           [type |-> "group",    value |-> <<LocaleGroup>>],
           [type |-> "integer",  value |-> <<LocaleDigit(0), LocaleDigit(0), LocaleDigit(0)>>],
           [type |-> "decimal",  value |-> <<LocaleDecimal>>],
           [type |-> "fraction",
            value |-> IF formatStyle = "accounting"
                      THEN <<LocaleDigit(1), LocaleDigit(0)>> ELSE <<LocaleDigit(1)>>]>>

\* inputValueFormatter.formatToParts(-1000.1)
negativeProbeParts == styledParts(TRUE, probeNumberParts)

\* inputValueFormatter.formatToParts(1000.1)
positiveProbeParts == styledParts(FALSE, probeNumberParts)

\* parts.find(p => p.type === type)?.value, '' standing for undefined
FindPart(parts, type) ==
    IF \E i \in 1..Len(parts) : parts[i].type = type
    THEN parts[CHOOSE i \in 1..Len(parts) :
                   parts[i].type = type /\ \A j \in 1..(i - 1) : parts[j].type # type].value
    ELSE <<>>

\* the characters of the parts whose type is not one of the given types
PartCharacters(parts, excluded) ==
    UNION {Range(parts[i].value) : i \in {j \in 1..Len(parts) : parts[j].type \notin excluded}}

symbolsUnsuppressed(min, max) ==
    [minusSign |-> FindPart(negativeProbeParts, "minusSign"),
     plusSign  |-> FindPart(positiveProbeParts, "plusSign"),
     decimal   |-> FindPart(negativeProbeParts, "decimal"),
     validCharacters |->
         PartCharacters(negativeProbeParts,
                        {"fraction", "integer", "minusSign", "plusSign"}),
     literals |->
         PartCharacters(negativeProbeParts,
                        {"decimal", "fraction", "integer", "minusSign", "plusSign"})]

symbols(min, max) ==
    LET minus == FindPart(negativeProbeParts, "minusSign")
        plus  == FindPart(positiveProbeParts, "plusSign")
    IN  [minusSign |-> IF min >= 0 \/ minus = <<>> THEN <<>> ELSE minus,
         plusSign  |-> IF max <= 0 \/ plus = <<>> THEN <<>> ELSE plus,
         decimal   |-> FindPart(negativeProbeParts, "decimal"),
         validCharacters |->
             PartCharacters(negativeProbeParts,
                            {"fraction", "integer", "minusSign", "plusSign"}),
         literals |->
             PartCharacters(negativeProbeParts,
                            {"decimal", "fraction", "integer", "minusSign", "plusSign"})]

(***************************************************************************)
(* The number parser (numberParser.parse)                                  *)
(***************************************************************************)

\* the parser reads the digits of the locale and the digits 0-9
IsDigit(c) == c \in Range(numberingSystems.latin) \cup Range(numberingSystems[locale])

DigitValue(c) == CHOOSE d \in 0..9 : Digit(d) = c \/ LocaleDigit(d) = c

RECURSIVE IntegerOf(_)
IntegerOf(ds) ==
    IF ds = <<>> THEN 0
    ELSE 10 * IntegerOf(SubSeq(ds, 1, Len(ds) - 1)) + DigitValue(ds[Len(ds)])

\* the value, in units, of the digits ds written after the decimal point
RECURSIVE FractionOf(_, _)
FractionOf(ds, place) ==
    IF ds = <<>> \/ place > FracDigits THEN 0
    ELSE DigitValue(Head(ds)) * Pow10(FracDigits - place) + FractionOf(Tail(ds), place + 1)

\* parse(string) -> number, NaN on failure: the group separators of the
\* locale are dropped and the rest is read as a decimal literal with an
\* optional sign, written with the decimal separator of the locale
parse(str) ==
    LET ungrouped == DropAll(str, {LocaleGroup})
        signed    == ungrouped # <<>> /\ Head(ungrouped) \in {"-", "+"}
        body      == IF signed THEN Tail(ungrouped) ELSE ungrouped
        dot       == IF \E i \in 1..Len(body) : body[i] = "."
                     THEN IndexOf(body, <<".">>)
                     ELSE IndexOf(body, <<LocaleDecimal>>)
        int       == IF dot = -1 THEN body ELSE Substring(body, 0, dot)
        frac      == IF dot = -1 THEN <<>> ELSE SubstringFrom(body, dot + 1)
    IN  IF Len(int) + Len(frac) = 0
           \/ \E c \in Range(int) \cup Range(frac) : ~IsDigit(c)
        THEN NaN
        ELSE LET magnitude == IntegerOf(int) * Scale + FractionOf(frac, 1)
             IN  IF signed /\ Head(ungrouped) = "-" THEN -magnitude ELSE magnitude

(***************************************************************************)
(* clamp (@react-aria/utils)                                               *)
(***************************************************************************)

\* Math.min(Math.max(value, min), max), then the nearest point of the grid
\* min, min + step, min + 2 step, ... that does not exceed max
clamp(value, min, max, stp) ==
    IF isNaN(value) THEN NaN
    ELSE LET lower   == IF value < min THEN min ELSE value
             bounded == IF lower > max THEN max ELSE lower
             snapped == min + RoundDiv(bounded - min, stp) * stp
         IN  IF isNaN(stp) THEN bounded
             ELSE IF snapped > max THEN snapped - stp ELSE snapped

(***************************************************************************)
(* handleDecimalOperation                                                  *)
(***************************************************************************)

RECURSIVE NumDigits(_)
NumDigits(n) == IF n < 10 THEN 1 ELSE 1 + NumDigits(n \div 10)

RECURSIVE StripZeros(_)
StripZeros(n) == IF n # 0 /\ n % 10 = 0 THEN StripZeros(n \div 10) ELSE n

\* (value.toString().split('.')[1] && value.toString().split('.')[1].length) || 0
DecimalLength(value) ==
    LET a == Abs(value)
    IN  IF a = 0 THEN 0
        ELSE IF a < Scale \div Pow10(FixedNotationDigits)
        THEN \* exponent notation "d.ddde-n": what follows the point is the
             \* rest of the mantissa and the exponent
             LET mantissa == NumDigits(StripZeros(a))
                 exponent == FracDigits - (NumDigits(a) - 1)
             IN  IF mantissa = 1 THEN 0
                 ELSE (mantissa - 1) + 2 + NumDigits(exponent)
        ELSE CHOOSE d \in 0..FracDigits :
                 /\ a % Pow10(FracDigits - d) = 0
                 /\ \A e \in 0..(d - 1) : a % Pow10(FracDigits - e) # 0

\* Math.round(value * Math.pow(10, digits)), an integer
ScaledRound(value, digits) ==
    IF digits <= FracDigits THEN RoundDiv(value, Pow10(FracDigits - digits))
    ELSE value * Pow10(digits - FracDigits)

\* integer / Math.pow(10, digits), back in units
Unscaled(integer, digits) ==
    IF digits <= FracDigits THEN integer * Pow10(FracDigits - digits)
    ELSE RoundDiv(integer, Pow10(digits - FracDigits))

handleDecimalOperation(operator, value1, value2) ==
    IF value1 % Scale # 0 \/ value2 % Scale # 0
    THEN LET len1 == DecimalLength(value1)
             len2 == DecimalLength(value2)
             digits == IF len1 > len2 THEN len1 ELSE len2
             int1 == ScaledRound(value1, digits)
             int2 == ScaledRound(value2, digits)
         IN  Unscaled(IF operator = "+" THEN int1 + int2 ELSE int1 - int2, digits)
    ELSE IF operator = "+" THEN value1 + value2 ELSE value1 - value2

(***************************************************************************)
(* Bounds and inputs                                                       *)
(***************************************************************************)

\* increments in a row that the history counts
MaxStreak == 12

Units(n) == n * Scale

Tenths(n) == n * (Scale \div 10)

\* the texts typed into the field
Texts ==
    { <<>>,
      <<"5">>,
      <<"9">>,
      <<"1", "1">>,
      <<".">>,
      <<"9", ".", "9", "5">>,
      <<"-", "3">>,
      <<"1", "a">> }

\* a field without formatOptions in a locale that writes the digits 0-9
Plain(min, max, stp, values) ==
    [min |-> min, max |-> max, step |-> stp, style |-> "decimal",
     locale |-> "latin", values |-> values, texts |-> Texts]

\* {minValue, maxValue, step} of the mounted field (NaN is a step not given)
\* with the numbers its owner passes as props.value / props.defaultValue
Configs ==
    { Plain(0, Units(10), Units(1), {NaN, Units(5), Units(10), Tenths(5)}),
      Plain(0, Units(10), NaN, {NaN, Units(5), Units(12)}),
      Plain(Units(9), Units(10), Tenths(1), {NaN, Units(10), Tenths(95)}),
      Plain(-Units(5), Units(5), Units(2), {NaN, -Units(1), 0}),
      Plain(0, Units(1), 1, {NaN, 5, Units(1)}),
      Plain(MIN_SAFE_INTEGER, MAX_SAFE_INTEGER, NaN, {NaN, Units(5)}) }

\* fields with formatOptions, in other locales, with one bound only, and the
\* texts typed into each of them
FormatConfigs ==
    { [min |-> 0, max |-> Units(1), step |-> NaN, style |-> "percent",
       locale |-> "latin", values |-> {NaN, Tenths(5), Tenths(2) + Tenths(1) \div 2},
       texts |-> {<<"5", "0", "%">>, <<"2", "5", "%">>, <<"5">>, <<"%">>}],
      [min |-> -Units(5), max |-> Units(5), step |-> NaN, style |-> "accounting",
       locale |-> "latin", values |-> {NaN, -Units(5), Tenths(25)},
       texts |-> {<<"(", "$", "5", ".", "0", "0", ")">>,
                  <<"$", "2", ".", "5", "0">>, <<"-", "2">>, <<"(", ")">>}],
      [min |-> -Units(5), max |-> 0, step |-> NaN, style |-> "signed",
       locale |-> "latin", values |-> {NaN, -Units(3), 0},
       texts |-> {<<"-", "3">>, <<"+", "0">>, <<"+">>, <<"-", "+", "3">>}],
      [min |-> 0, max |-> Units(5), step |-> NaN, style |-> "signed",
       locale |-> "latin", values |-> {NaN, Units(3)},
       texts |-> {<<"+", "3">>, <<"-">>, <<"-", "3", "-">>, <<"+", "+", "+">>}],
      [min |-> 0, max |-> Units(10), step |-> Units(1), style |-> "decimal",
       locale |-> "arab", values |-> {NaN, Units(5)},
       texts |-> {<<"ar5">>, <<"5">>, <<"ar1", "ar.", "ar5">>, <<"han5">>}],
      [min |-> 0, max |-> Units(10), step |-> Units(1), style |-> "decimal",
       locale |-> "hanidec", values |-> {NaN, Units(5)},
       texts |-> {<<"han5">>, <<"5">>, <<"han1", "han0">>, <<"a">>}],
      [min |-> -Units(5), max |-> Units(5), step |-> NaN, style |-> "decimal",
       locale |-> "latin",
       values |-> {NaN, Units(1) + Tenths(2) + Tenths(1) \div 2,
                   Units(1) + 2346 * (Scale \div 10000)},
       texts |-> {<<"han5">>, <<"5", "han3">>, <<"ar5", "han5">>,
                  <<".", ".", ".">>, <<"-", "-", "-">>, <<"1", ".", "2", "5">>, <<"9">>}],
      [min |-> 0, max |-> MAX_SAFE_INTEGER, step |-> NaN, style |-> "decimal",
       locale |-> "latin", values |-> {NaN, Units(2)}, texts |-> {<<"5">>, <<"-">>}],
      [min |-> MIN_SAFE_INTEGER, max |-> Units(10), step |-> Units(2),
       style |-> "decimal", locale |-> "latin", values |-> {NaN, Units(2)},
       texts |-> {<<"5">>, <<>>}] }

\* the mounted field, among the fields of the model
Mounted ==
    CHOOSE c \in Configs \cup FormatConfigs :
        /\ c.min = minValue /\ c.max = maxValue /\ c.step = step
        /\ c.style = formatStyle /\ c.locale = locale

\* the numbers the owner of this field passes
Values == Mounted.values

\* operands of handleDecimalOperation
Operands ==
    {0, 1, 5, 10, Tenths(1), Tenths(99), Units(1), Units(10), Units(1) + 1,
     -Tenths(5), Tenths(15) + 5}

(***************************************************************************)
(* The handlers, as the updates they request from the current state        *)
(***************************************************************************)

noUpdate == <<>>

HasNumeral(value, system) ==
    \E c \in Range(value) : c \in Range(numberingSystems[system])

determineNumeralSystemHanFirst(value) ==
    IF HasNumeral(value, "hanidec") THEN "hanidec"
    ELSE IF HasNumeral(value, "arab") THEN "arab"
    ELSE "latin"

\* determineNumeralSystem: the system returned
determineNumeralSystem(value) ==
    IF \E i \in 1..Len(SystemOrder) : HasNumeral(value, SystemOrder[i])
    THEN SystemOrder[CHOOSE i \in 1..Len(SystemOrder) :
                         /\ HasNumeral(value, SystemOrder[i])
                         /\ \A j \in 1..(i - 1) : ~HasNumeral(value, SystemOrder[j])]
    ELSE "latin"

detectedNumeralSystemKept(value) == currentNumeralSystem

\* determineNumeralSystem: setCurrentNumeralSystem is called only on a match
detectedNumeralSystem(value) ==
    IF \E i \in 1..Len(SystemOrder) : HasNumeral(value, SystemOrder[i])
    THEN determineNumeralSystem(value)
    ELSE currentNumeralSystem

replaceAllButFirstOccurrence(val, char) ==
    LET first  == IndexOf(val, char)
        prefix == Substring(val, 0, first + 1)
        suffix == ReplaceFirst(SubstringFrom(val, first + 1), char)
    IN  prefix \o suffix

sanitizeAnyNumeral(value, numeralSystem) ==
    LET sym == symbols(minValue, maxValue)
        allowed == Range(sym.minusSign) \cup Range(sym.plusSign)
                     \cup UNION {Range(numberingSystems[system]) :
                                    system \in DOMAIN numberingSystems}
                     \cup sym.validCharacters
        kept == KeepOnly(value, allowed)
    IN  replaceAllButFirstOccurrence(
            replaceAllButFirstOccurrence(
                replaceAllButFirstOccurrence(kept, sym.minusSign),
                sym.plusSign),
            sym.decimal)

\* setValue: strippedValue
sanitize(value, numeralSystem) ==
    LET sym == symbols(minValue, maxValue)
        allowed == Range(sym.minusSign) \cup Range(sym.plusSign)
                     \cup Range(numberingSystems[numeralSystem])
                     \cup sym.validCharacters
        kept == KeepOnly(value, allowed)
    IN  replaceAllButFirstOccurrence(
            replaceAllButFirstOccurrence(
                replaceAllButFirstOccurrence(kept, sym.minusSign),
                sym.plusSign),
            sym.decimal)

\* -1 * result
Negated(result) == IF isNaN(result) THEN NaN ELSE -result

\* result / 100
Hundredth(result) == IF isNaN(result) THEN NaN ELSE result \div 100

\* CURRENCY_SIGN_REGEX.test(str)
CURRENCY_SIGN_REGEX(str) == Len(str) >= 2 /\ Head(str) = "(" /\ str[Len(str)] = ")"

\* setValue: newValue, the number read from the sanitized text
parsedValue(strippedValue) ==
    LET parseReady == DropAll(strippedValue, symbols(minValue, maxValue).literals)
        parsed == parse(parseReady)
        signed == IF formatStyle = "accounting" /\ CURRENCY_SIGN_REGEX(strippedValue)
                  THEN Negated(parsed) ELSE parsed
    IN  IF formatStyle = "percent" THEN Hundredth(signed) ELSE signed

roundValueUnsigned(value) ==
    LET parts == formatToParts(value)
        kept  == [i \in 1..Len(parts) |->
                     IF parts[i].type \in {"currency", "nan", "percentSign", "group",
                                           "infinity", "literal", "unit"}
                     THEN <<>> ELSE parts[i].value]
        parsed == parse(Concat(kept))
    IN  IF formatStyle = "percent" THEN Hundredth(parsed) ELSE parsed

roundValueUsingFormatter(value) ==
    LET parts == formatToParts(value)
        kept  == [i \in 1..Len(parts) |->
                     IF parts[i].type \in {"currency", "nan", "percentSign", "group",
                                           "infinity", "literal", "unit"}
                     THEN <<>> ELSE parts[i].value]
        parsed == parse(Concat(kept))
        signed == IF formatStyle = "accounting" /\ value < 0
                  THEN Negated(parsed) ELSE parsed
    IN  IF formatStyle = "percent" THEN Hundredth(signed) ELSE signed

setValueStoresNumber(value) ==
    LET strippedValue == sanitize(value, determineNumeralSystem(value))
        newValue == parsedValue(strippedValue)
    IN  IF ~isNaN(newValue) /\ (newValue > maxValue \/ newValue < minValue)
        THEN [number |-> noUpdate, input |-> noUpdate, temp |-> tempNum,
              system |-> detectedNumeralSystem(value)]
        ELSE [number |-> IF isNaN(newValue) THEN noUpdate ELSE <<newValue>>,
              input  |-> <<strippedValue>>,
              temp   |-> IF isNaN(newValue) THEN tempNum
                         ELSE roundValueUsingFormatter(newValue),
              system |-> detectedNumeralSystem(value)]

setValueAcceptsOutOfRange(value) ==
    LET strippedValue == sanitize(value, determineNumeralSystem(value))
        newValue == parsedValue(strippedValue)
    IN  [number |-> noUpdate,
         input  |-> <<strippedValue>>,
         temp   |-> IF ~isNaN(newValue) /\ newValue <= maxValue /\ newValue >= minValue
                    THEN roundValueUsingFormatter(newValue)
                    ELSE tempNum,
         system |-> detectedNumeralSystem(value)]

setValueReportsGarbage(value) ==
    LET strippedValue == sanitize(value, determineNumeralSystem(value))
        newValue == parsedValue(strippedValue)
    IN  IF ~isNaN(newValue) /\ (newValue > maxValue \/ newValue < minValue)
        THEN [number |-> noUpdate, input |-> noUpdate, temp |-> tempNum,
              system |-> detectedNumeralSystem(value)]
        ELSE [number |-> IF isNaN(newValue) THEN <<NaN>> ELSE noUpdate,
              input  |-> <<strippedValue>>,
              temp   |-> IF ~isNaN(newValue) /\ newValue <= maxValue /\ newValue >= minValue
                         THEN roundValueUsingFormatter(newValue)
                         ELSE tempNum,
              system |-> detectedNumeralSystem(value)]

setValueForgetsPending(value) ==
    LET strippedValue == sanitize(value, determineNumeralSystem(value))
        newValue == parsedValue(strippedValue)
    IN  IF ~isNaN(newValue) /\ (newValue > maxValue \/ newValue < minValue)
        THEN [number |-> noUpdate, input |-> noUpdate, temp |-> tempNum,
              system |-> detectedNumeralSystem(value)]
        ELSE [number |-> noUpdate,
              input  |-> <<strippedValue>>,
              temp   |-> IF ~isNaN(newValue) /\ newValue <= maxValue /\ newValue >= minValue
                         THEN roundValueUsingFormatter(newValue)
                         ELSE NaN,
              system |-> detectedNumeralSystem(value)]

setValue(value) ==
    LET strippedValue == sanitize(value, determineNumeralSystem(value))
        newValue == parsedValue(strippedValue)
    IN  IF ~isNaN(newValue) /\ (newValue > maxValue \/ newValue < minValue)
        THEN [number |-> noUpdate, input |-> noUpdate, temp |-> tempNum,
              system |-> detectedNumeralSystem(value)]
        ELSE [number |-> noUpdate,
              input  |-> <<strippedValue>>,
              temp   |-> IF ~isNaN(newValue) /\ newValue <= maxValue /\ newValue >= minValue
                         THEN roundValueUsingFormatter(newValue)
                         ELSE tempNum,
              system |-> detectedNumeralSystem(value)]

commitKeepsPending ==
    IF Len(inputValue) = 0
    THEN [number |-> <<NaN>>, input |-> <<<<>>>>, temp |-> tempNum,
          system |-> currentNumeralSystem]
    ELSE LET clampedValue ==
                 IF ~isNaN(tempNum) THEN clamp(tempNum, minValue, maxValue, step)
                 ELSE clamp(numberValue, minValue, maxValue, step)
         IN  [number |-> <<clampedValue>>,
              input  |-> <<formatOrEmpty(clampedValue)>>,
              temp   |-> NaN,
              system |-> currentNumeralSystem]

commitIgnoresPending ==
    IF Len(inputValue) = 0
    THEN [number |-> <<NaN>>, input |-> <<<<>>>>, temp |-> NaN,
          system |-> currentNumeralSystem]
    ELSE LET clampedValue == clamp(numberValue, minValue, maxValue, step)
         IN  [number |-> <<clampedValue>>,
              input  |-> <<formatOrEmpty(clampedValue)>>,
              temp   |-> NaN,
              system |-> currentNumeralSystem]

commitInputValue ==
    IF Len(inputValue) = 0
    THEN [number |-> <<NaN>>, input |-> <<<<>>>>, temp |-> NaN,
          system |-> currentNumeralSystem]
    ELSE LET clampedValue ==
                 IF ~isNaN(tempNum) THEN clamp(tempNum, minValue, maxValue, step)
                 ELSE clamp(numberValue, minValue, maxValue, step)
         IN  [number |-> <<clampedValue>>,
              input  |-> <<formatOrEmpty(clampedValue)>>,
              temp   |-> NaN,
              system |-> currentNumeralSystem]

isMaxRange == minValue = MIN_SAFE_INTEGER /\ maxValue = MAX_SAFE_INTEGER

incrementBaseFromMax ==
    LET seeded == IF isNaN(numberValue)
                  THEN IF isMaxRange THEN 0 ELSE maxValue
                  ELSE numberValue
    IN  IF ~isNaN(tempNum) THEN tempNum ELSE seeded

\* increment: prev, the number the step is added to
incrementBase ==
    LET seeded == IF isNaN(numberValue)
                  THEN IF isMaxRange THEN 0
                       ELSE IF minValue = MIN_SAFE_INTEGER THEN maxValue
                       ELSE minValue
                  ELSE numberValue
    IN  IF ~isNaN(tempNum) THEN tempNum ELSE seeded

\* decrement: prev, the number the step is subtracted from
decrementBase ==
    LET seeded == IF isNaN(numberValue)
                  THEN IF isMaxRange THEN 0
                       ELSE IF maxValue = MAX_SAFE_INTEGER THEN minValue
                       ELSE maxValue
                  ELSE numberValue
    IN  IF ~isNaN(tempNum) THEN tempNum ELSE seeded

\* !isNaN(step) ? step : 1
stepOrOne == IF ~isNaN(step) THEN step ELSE Units(1)

incrementUnclamped ==
    [number |-> <<handleDecimalOperation("+", incrementBase, stepOrOne)>>,
     input  |-> noUpdate,
     temp   |-> NaN,
     system |-> currentNumeralSystem]

incrementKeepsPending ==
    [number |-> <<clamp(handleDecimalOperation("+", incrementBase, stepOrOne),
                        minValue, maxValue, step)>>,
     input  |-> noUpdate,
     temp   |-> tempNum,
     system |-> currentNumeralSystem]

increment ==
    [number |-> <<clamp(handleDecimalOperation("+", incrementBase, stepOrOne),
                        minValue, maxValue, step)>>,
     input  |-> noUpdate,
     temp   |-> NaN,
     system |-> currentNumeralSystem]

decrement ==
    [number |-> <<clamp(handleDecimalOperation("-", decrementBase, stepOrOne),
                        minValue, maxValue, step)>>,
     input  |-> noUpdate,
     temp   |-> NaN,
     system |-> currentNumeralSystem]

incrementToMaxUnlessPending ==
    [number |-> IF ~isNaN(tempNum) THEN noUpdate
                ELSE <<clamp(maxValue, minValue, maxValue, step)>>,
     input  |-> noUpdate,
     temp   |-> tempNum,
     system |-> currentNumeralSystem]

incrementToMax ==
    [number |-> <<clamp(maxValue, minValue, maxValue, step)>>,
     input  |-> noUpdate,
     temp   |-> tempNum,
     system |-> currentNumeralSystem]

decrementToMin ==
    [number |-> <<clamp(minValue, minValue, maxValue, step)>>,
     input  |-> noUpdate,
     temp   |-> tempNum,
     system |-> currentNumeralSystem]

(***************************************************************************)
(* The state machine                                                       *)
(***************************************************************************)

smartOnChangeAlways(val) ==
    /\ passed' = <<val>>
    /\ notified' = <<val>>
    /\ lastValDispatched' = val

\* smartOnChange(val)
smartOnChange(val) ==
    /\ passed' = <<val>>
    /\ notified' = IF ~isNaN(val) \/ ~isNaN(lastValDispatched) THEN <<val>> ELSE <<>>
    /\ lastValDispatched' = val

\* useControlledState: setNumberValue(val) stores val unless the owner
\* controls the value, and reports val when it is not the current value
setNumberValue(val) ==
    /\ numberValue' = IF controlled THEN numberValue ELSE val
    /\ IF val # numberValue \/ isNaN(val)
       THEN smartOnChange(val)
       ELSE notified' = <<>> /\ passed' = <<>> /\ UNCHANGED lastValDispatched

\* useEffect(() => setInputValue(...), [inputValueFormatter, setInputValue,
\* numberValue]): after the render that follows the handler, the display is
\* rewritten when state.value is a different number
syncInputValue(requested) ==
    inputValue' = IF numberValue' # numberValue THEN formatOrEmpty(numberValue')
                  ELSE IF requested # noUpdate THEN requested[1]
                  ELSE inputValue

props == <<minValue, maxValue, step, controlled, formatStyle, locale, startValue>>

\* one call of a handler, the render it causes and the effect after it
Handle(op, text, updates) ==
    /\ IF updates.number # noUpdate
       THEN setNumberValue(updates.number[1])
       ELSE /\ UNCHANGED <<numberValue, lastValDispatched>>
            /\ notified' = <<>> /\ passed' = <<>>
    /\ syncInputValue(updates.input)
    /\ tempNum' = updates.temp
    /\ currentNumeralSystem' = updates.system
    /\ lastOp' = op
    /\ lastText' = text
    /\ valueBefore' = numberValue
    /\ tempBefore' = tempNum
    /\ committedBefore' = (inputValue = formatOrEmpty(numberValue))
    /\ lastSystem' = IF op = "setValue" THEN determineNumeralSystem(text) ELSE "none"
    /\ streak' = IF op # "increment" THEN 0
                 ELSE IF isNaN(numberValue) /\ isNaN(tempNum) THEN 1
                 ELSE IF streak = 0 \/ streak = MaxStreak THEN streak
                 ELSE streak + 1
    /\ UNCHANGED props
    /\ UNCHANGED decVars

\* the first render of the field c
Mount(c) ==
    /\ minValue = c.min /\ maxValue = c.max /\ step = c.step
    /\ formatStyle = c.style /\ locale = c.locale
    /\ startValue \in c.values
    /\ controlled \in BOOLEAN
    /\ numberValue = startValue
    /\ inputValue = formatOrEmpty(startValue)
    /\ tempNum = NaN
    /\ currentNumeralSystem = "latin"
    /\ lastValDispatched = startValue
    /\ notified = <<>>
    /\ lastOp = "mount"
    /\ lastText = <<>>
    /\ valueBefore = NaN
    /\ tempBefore = NaN
    /\ committedBefore = TRUE
    /\ passed = <<>>
    /\ lastSystem = "none"
    /\ streak = 0
    /\ decOp = "+" /\ decA = 0 /\ decB = 0 /\ decResult = 0

Init == \E c \in Configs : Mount(c)

SetValue == \E text \in Mounted.texts : Handle("setValue", text, setValue(text))

CommitInputValue == Handle("commitInputValue", <<>>, commitInputValue)

Increment == Handle("increment", <<>>, increment)

Decrement == Handle("decrement", <<>>, decrement)

IncrementToMax == Handle("incrementToMax", <<>>, incrementToMax)

DecrementToMin == Handle("decrementToMin", <<>>, decrementToMin)

\* the owner of a controlled field passes another props.value
OwnerSetValue ==
    /\ controlled
    /\ \E v \in Values :
        /\ v # numberValue
        /\ numberValue' = v
        /\ inputValue' = formatOrEmpty(v)
    /\ notified' = <<>>
    /\ passed' = <<>>
    /\ lastSystem' = "none"
    /\ lastOp' = "owner"
    /\ lastText' = <<>>
    /\ valueBefore' = numberValue
    /\ tempBefore' = tempNum
    /\ committedBefore' = (inputValue = formatOrEmpty(numberValue))
    /\ streak' = 0
    /\ UNCHANGED <<tempNum, currentNumeralSystem, lastValDispatched>>
    /\ UNCHANGED props
    /\ UNCHANGED decVars

Next ==
    \/ SetValue
    \/ CommitInputValue
    \/ Increment
    \/ Decrement
    \/ IncrementToMax
    \/ DecrementToMin
    \/ OwnerSetValue

Spec == Init /\ [][Next]_vars

\* the fields with formatOptions, other locales and one bound only
InitFormats == \E c \in FormatConfigs : Mount(c)

SpecFormats == InitFormats /\ [][Next]_vars

(***************************************************************************)
(* handleDecimalOperation on its own                                       *)
(***************************************************************************)

InitDecimal ==
    /\ minValue = 0 /\ maxValue = Units(10) /\ step = Units(1)
    /\ controlled = FALSE
    /\ formatStyle = "decimal" /\ locale = "latin"
    /\ startValue = NaN
    /\ numberValue = NaN
    /\ inputValue = <<>>
    /\ tempNum = NaN
    /\ currentNumeralSystem = "latin"
    /\ lastValDispatched = NaN
    /\ notified = <<>>
    /\ lastOp = "mount"
    /\ lastText = <<>>
    /\ valueBefore = NaN
    /\ tempBefore = NaN
    /\ committedBefore = TRUE
    /\ passed = <<>>
    /\ lastSystem = "none"
    /\ streak = 0
    /\ decOp \in {"+", "-"}
    /\ decA \in Operands
    /\ decB \in Operands
    /\ decResult = NaN

DecimalOperation ==
    /\ isNaN(decResult)
    /\ decResult' = handleDecimalOperation(decOp, decA, decB)
    /\ UNCHANGED <<decOp, decA, decB>>
    /\ UNCHANGED engineVars

NextDecimal == DecimalOperation

SpecDecimal == InitDecimal /\ [][NextDecimal]_vars

(***************************************************************************)
(* Properties                                                              *)
(***************************************************************************)

StepOperations == {"increment", "decrement", "incrementToMax", "decrementToMin"}

\* the number setValue reads from a text
typedNumber(text) == parsedValue(sanitize(text, determineNumeralSystem(text)))

\* the text parses to a number outside [minValue, maxValue]
OutOfRange(text) ==
    ~isNaN(typedNumber(text))
        /\ (typedNumber(text) > maxValue \/ typedNumber(text) < minValue)

InRange(v) == isNaN(v) \/ (minValue <= v /\ v <= maxValue)

\* C1: setValue(text) never changes value, whatever the text; value changes
\* only in commitInputValue, increment, decrement, incrementToMax,
\* decrementToMin or when the owner passes another controlled value.
C1_SetValueKeepsValue ==
    [][/\ lastOp' = "setValue" => numberValue' = numberValue
       /\ numberValue' # numberValue =>
              lastOp' \in StepOperations \cup {"commitInputValue", "owner"}]_vars

C1_Witness ==
    /\ lastOp = "setValue" /\ lastText = <<"5">>
    /\ inputValue = <<"5">> /\ tempNum = Units(5)
    /\ numberValue = valueBefore /\ numberValue # Units(5)

C3_EmptyCommitYieldsNaN ==
    [][lastOp' = "commitInputValue" /\ inputValue = <<>> =>
           /\ isNaN(numberValue')
           /\ inputValue' = <<>>
           /\ isNaN(tempNum')]_vars

\* C3, amended: commitInputValue() on an empty inputValue yields inputValue ""
\* and clears the pending parsed value; value becomes NaN when the field is
\* uncontrolled and stays the owner's value when it is controlled.
C3_EmptyCommit ==
    [][lastOp' = "commitInputValue" /\ inputValue = <<>> =>
           /\ numberValue' = IF controlled THEN numberValue ELSE NaN
           /\ inputValue' = <<>>
           /\ isNaN(tempNum')]_vars

C3_Witness ==
    /\ lastOp = "commitInputValue" /\ ~controlled
    /\ ~isNaN(valueBefore) /\ ~isNaN(tempBefore)
    /\ isNaN(numberValue) /\ inputValue = <<>> /\ isNaN(tempNum)

\* the number a commit of non-empty text settles on
committedNumber ==
    clamp(IF ~isNaN(tempNum) THEN tempNum ELSE numberValue, minValue, maxValue, step)

\* C4, as claimed: commitInputValue() on a non-empty inputValue sets value to
\* clamp(b, min, max, step), b being the pending parsed value if set (then
\* cleared) and else the previous value, and inputValue to the formatted form
\* of that number ("" for NaN), so that inputValue is the formatted value.
C4_CommitStoresClamped ==
    [][lastOp' = "commitInputValue" /\ inputValue # <<>> =>
           /\ numberValue' = committedNumber
           /\ isNaN(tempNum')
           /\ inputValue' = formatOrEmpty(committedNumber)
           /\ inputValue' = formatOrEmpty(numberValue')]_vars

\* C4, amended: commitInputValue() on a non-empty inputValue clears the
\* pending parsed value and sets inputValue to the formatted form of
\* clamp(b, min, max, step); an uncontrolled field stores that number as
\* value, so that inputValue is the formatted value, and a controlled field
\* keeps the owner's value.
C4_Commit ==
    [][lastOp' = "commitInputValue" /\ inputValue # <<>> =>
           /\ numberValue' = IF controlled THEN numberValue ELSE committedNumber
           /\ isNaN(tempNum')
           /\ inputValue' = formatOrEmpty(committedNumber)
           /\ ~controlled => inputValue' = formatOrEmpty(numberValue')]_vars

C4_Witness ==
    /\ lastOp = "commitInputValue" /\ ~controlled
    /\ tempBefore = Tenths(99) + Tenths(1) \div 2 /\ step = Tenths(1)
    /\ valueBefore = Tenths(95)
    /\ numberValue = Units(10) /\ inputValue = <<"1", "0">> /\ isNaN(tempNum)

ExampleRange == minValue = 0 /\ maxValue = Units(10) /\ step = Units(1)

\* C5, as claimed (for the uncontrolled field): with range [0, 10] and step 1
\* the first increment() on an empty field yields 0, nine more yield 9, one
\* more yields 10 and further ones leave 10; the first increment() from empty
\* with a bounded min yields min.
C5_FirstIncrementYieldsMin ==
    ~controlled /\ streak > 0 =>
        /\ ExampleRange =>
               numberValue = IF streak - 1 < 10 THEN Units(streak - 1) ELSE Units(10)
        /\ streak = 1 /\ minValue # MIN_SAFE_INTEGER => numberValue = minValue

\* C5, amended: in the uncontrolled field with range [0, 10] and step 1 the
\* first increment() on an empty field yields 1, nine more yield 10 and
\* further ones leave 10; the first increment() from empty with a bounded min
\* yields clamp of the decimal-safe sum of min and step.
C5_FirstIncrementYieldsMinPlusStep ==
    ~controlled /\ streak > 0 =>
        /\ ExampleRange =>
               numberValue = IF streak < 10 THEN Units(streak) ELSE Units(10)
        /\ streak = 1 /\ minValue # MIN_SAFE_INTEGER =>
               numberValue = clamp(handleDecimalOperation("+", minValue, stepOrOne),
                                   minValue, maxValue, step)

C5_Witness ==
    /\ ~controlled /\ ExampleRange /\ isNaN(startValue)
    /\ streak = MaxStreak /\ numberValue = Units(10)

OnGrid(v) == isNaN(step) \/ (v - minValue) % step = 0

\* C7, as claimed (for a value on the step grid): from a committed value v
\* with nothing pending, v and v + step strictly inside [min, max],
\* increment() followed by decrement() returns value to exactly v, and
\* likewise decrement() followed by increment().
C7_StepThereAndBack ==
    [][committedBefore /\ isNaN(tempBefore) /\ ~isNaN(valueBefore)
         /\ OnGrid(valueBefore) =>
           /\ lastOp = "increment" /\ lastOp' = "decrement"
                /\ minValue < valueBefore /\ valueBefore + stepOrOne < maxValue =>
                  numberValue' = valueBefore
           /\ lastOp = "decrement" /\ lastOp' = "increment"
                /\ minValue < valueBefore - stepOrOne /\ valueBefore < maxValue =>
                  numberValue' = valueBefore]_vars

\* C8, as claimed: handleDecimalOperation(op, a, b) is the exact decimal
\* a + b or a - b for operands of finitely many decimal digits.
C8_ExactDecimalResult ==
    ~isNaN(decResult) =>
        decResult = IF decOp = "+" THEN decA + decB ELSE decA - decB

\* the text does not parse to a number inside [minValue, maxValue]
Unacceptable(text) == isNaN(typedNumber(text)) \/ OutOfRange(text)

\* C9, as claimed (for the uncontrolled field): when the last setValue before
\* a commitInputValue() gave a non-empty text that does not parse to a number
\* inside [min, max], the commit leaves value at the clamped value it had
\* before the editing and commits no number that the text does not denote.
C9_UnacceptableTextNotCommitted ==
    [][~controlled /\ lastOp = "setValue" /\ lastText # <<>> /\ inputValue # <<>>
         /\ Unacceptable(lastText) /\ lastOp' = "commitInputValue" =>
           numberValue' = clamp(numberValue, minValue, maxValue, step)]_vars

\* C10, as claimed (for the uncontrolled field): after increment() or
\* decrement(), from any state, inputValue is the formatted form of value.
C10_StepEndsCommitted ==
    [][~controlled /\ lastOp' \in {"increment", "decrement"} =>
           inputValue' = formatOrEmpty(numberValue')]_vars

\* a bound that was given: not the default of minValue or maxValue
Bounded(bound) == bound \notin {MIN_SAFE_INTEGER, MAX_SAFE_INTEGER}

\* the number an empty field steps from
seedOf(near, far) ==
    IF ~Bounded(near) /\ ~Bounded(far) THEN 0
    ELSE IF Bounded(near) THEN near
    ELSE far

\* C11, as claimed (for the uncontrolled field): when value is NaN and nothing
\* is pending, increment() stores clamp(base + step) and decrement() stores
\* clamp(base - step), step being 1 when not given and base being 0 if both
\* bounds are unbounded, else min for increment (max for decrement) if that
\* bound is given, else the other bound.
C11_StepFromEmpty ==
    [][~controlled /\ isNaN(numberValue) /\ isNaN(tempNum) =>
           LET by == IF isNaN(step) THEN Units(1) ELSE step
           IN  /\ lastOp' = "increment" =>
                      numberValue' = clamp(seedOf(minValue, maxValue) + by,
                                           minValue, maxValue, step)
               /\ lastOp' = "decrement" =>
                      numberValue' = clamp(seedOf(maxValue, minValue) - by,
                                           minValue, maxValue, step)]_vars

\* C12, as claimed: incrementToMax() sets value to clamp(max, min, max, step)
\* and decrementToMin() sets it to clamp(min, min, max, step), from any state,
\* whatever the value, the display and the pending number are.
C12_GoesToBound ==
    [][/\ lastOp' = "incrementToMax" =>
              numberValue' = clamp(maxValue, minValue, maxValue, step)
       /\ lastOp' = "decrementToMin" =>
              numberValue' = clamp(minValue, minValue, maxValue, step)]_vars

\* C12, amended: the uncontrolled field goes to the clamped bound whatever
\* its value, display and pending number are; the controlled field keeps the
\* value of its owner, who is told the clamped bound when it is another
\* number.
C12_GoesToBoundUnlessControlled ==
    [][\A op \in {"incrementToMax", "decrementToMin"} :
           lastOp' = op =>
               LET bound == IF op = "incrementToMax" THEN maxValue ELSE minValue
                   target == clamp(bound, minValue, maxValue, step)
               IN  /\ numberValue' = IF controlled THEN numberValue ELSE target
                   /\ target # numberValue => notified' = <<target>>]_vars

C12_Witness ==
    /\ lastOp = "incrementToMax" /\ ~controlled
    /\ ~isNaN(tempBefore) /\ ~isNaN(valueBefore) /\ valueBefore # numberValue
    /\ numberValue = clamp(maxValue, minValue, maxValue, step)

\* the text setValue makes of the typed text
strippedText(text) == sanitize(text, determineNumeralSystem(text))

\* C13: when min >= 0 the resolved minus sign is empty and setValue strips
\* every minus sign from the typed text, so the display it writes contains
\* none; likewise the plus sign when max <= 0.
C13_SuppressedSignStripped ==
    [][lastOp' = "setValue" =>
           /\ minValue >= 0 =>
                  /\ symbols(minValue, maxValue).minusSign = <<>>
                  /\ "-" \notin Range(strippedText(lastText'))
                  /\ inputValue' # inputValue => "-" \notin Range(inputValue')
           /\ maxValue <= 0 =>
                  /\ symbols(minValue, maxValue).plusSign = <<>>
                  /\ "+" \notin Range(strippedText(lastText'))
                  /\ inputValue' # inputValue => "+" \notin Range(inputValue')]_vars

C13_Witness ==
    /\ lastOp = "setValue" /\ maxValue <= 0 /\ formatStyle = "signed"
    /\ "+" \in Range(lastText)
    /\ inputValue = <<"-", "3">>

Occurrences(str, char) == Cardinality({i \in 1..Len(str) : <<str[i]>> = char})

\* C14, as claimed: whatever text is passed to setValue, the sanitized text
\* and the display made of it contain the minus sign, the plus sign and the
\* decimal separator at most once each.
C14_SymbolsKeptOnce ==
    [][lastOp' = "setValue" =>
           LET sym == symbols(minValue, maxValue)
           IN  \A char \in {sym.minusSign, sym.plusSign, sym.decimal} \ {<<>>} :
                   /\ Occurrences(strippedText(lastText'), char) <= 1
                   /\ inputValue' # inputValue => Occurrences(inputValue', char) <= 1]_vars

\* what the sanitizer of C15 accepts
hanidecAccepted ==
    LET sym == symbols(minValue, maxValue)
    IN  Range(numberingSystems.hanidec) \cup Range(sym.minusSign)
            \cup Range(sym.plusSign) \cup sym.validCharacters

\* C15, as claimed: setValue with a text that contains Han-decimal digits
\* sets currentNumeralSystem to the Han-decimal system, and the sanitized
\* text has only Han-decimal digits, the resolved signs and decimal and the
\* allowed characters.
C15_HanDigitsSelectHan ==
    [][lastOp' = "setValue" /\ HasNumeral(lastText', "hanidec") =>
           /\ currentNumeralSystem' = "hanidec"
           /\ Range(strippedText(lastText')) \subseteq hanidecAccepted]_vars

\* C15, amended: so it is when the text has no Arabic-Indic digit; with one,
\* the Arabic-Indic system is set and the Han-decimal digits are removed.
C15_HanDigitsSelectHanUnlessArabic ==
    [][lastOp' = "setValue" /\ HasNumeral(lastText', "hanidec") =>
           IF HasNumeral(lastText', "arab")
           THEN /\ currentNumeralSystem' = "arab"
                /\ ~HasNumeral(strippedText(lastText'), "hanidec")
           ELSE /\ currentNumeralSystem' = "hanidec"
                /\ lastSystem' = "hanidec"
                /\ Range(strippedText(lastText')) \subseteq hanidecAccepted
                /\ inputValue' \in {inputValue, strippedText(lastText')}]_vars

C15_Witness ==
    /\ lastOp = "setValue" /\ lastText = <<"5", "han3">>
    /\ currentNumeralSystem = "hanidec"
    /\ inputValue = <<"han3">>

\* C16: the detector returns the first of arabic-indic, han-decimal, latin
\* that has one of its ten digits in the text, and latin when the text has
\* no digit of any of them; the answer is a function of the text alone,
\* whatever currentNumeralSystem was.
C16_DetectorPriority ==
    lastOp = "setValue" =>
        lastSystem = IF \E c \in Range(lastText) : c \in Range(numberingSystems.arab)
                     THEN "arab"
                     ELSE IF \E c \in Range(lastText) : c \in Range(numberingSystems.hanidec)
                     THEN "hanidec"
                     ELSE "latin"

C16_Witness ==
    /\ lastOp = "setValue" /\ lastSystem = "latin"
    /\ currentNumeralSystem = "hanidec"
    /\ \A system \in DOMAIN numberingSystems : ~HasNumeral(lastText, system)

\* C18: onChange is never delivered NaN when the value dispatched before
\* (the starting value, before any dispatch) was NaN too; every number handed
\* to the notifier is delivered, and so is the first NaN after a number.
C18_NoRepeatedNaN ==
    [][/\ notified' # <<>> /\ isNaN(notified'[1]) => ~isNaN(lastValDispatched)
       /\ passed' # <<>> =>
              /\ ~isNaN(passed'[1]) => notified' = passed'
              /\ isNaN(passed'[1]) /\ ~isNaN(lastValDispatched) => notified' = passed'
              /\ lastValDispatched' = passed'[1]
       /\ passed' = <<>> => notified' = <<>> /\ lastValDispatched' = lastValDispatched]_vars

C18_Witness ==
    /\ lastOp = "commitInputValue" /\ inputValue = <<>>
    /\ passed = <<NaN>> /\ notified = <<>>
    /\ ~isNaN(startValue)

\* state.textValue
textValue ==
    IF format(numberValue) = <<"N", "a", "N">> THEN <<>> ELSE format(numberValue)

\* C19, as claimed (for a field formatted as a percentage): textValue is the
\* empty string whenever value is NaN and the formatted value otherwise.
C19_TextValueEmptyForNaN ==
    formatStyle = "percent" =>
        textValue = IF isNaN(numberValue) THEN <<>> ELSE format(numberValue)

\* C20: setValue with a text that does not parse to a number completes, sets
\* inputValue to the sanitized text and leaves value and the pending number
\* as they were.
C20_UnparseableTextShown ==
    [][lastOp' = "setValue" /\ isNaN(typedNumber(lastText')) =>
           /\ inputValue' = strippedText(lastText')
           /\ numberValue' = numberValue
           /\ tempNum' = tempNum]_vars

C20_Witness ==
    /\ lastOp = "setValue" /\ lastText = <<".">>
    /\ isNaN(typedNumber(lastText))
    /\ inputValue = <<".">>
    /\ ~isNaN(tempNum) /\ ~isNaN(numberValue)

\* the numbers v of C17: in range and on the step grid
RoundTripValues == {v \in Values \ {NaN} : InRange(v) /\ OnGrid(v)}

\* C17, as claimed (the commit in the uncontrolled field): for every in-range
\* v, sanitizing format(v) and parsing the remainder gives back v, and
\* setValue(format(v)) followed by commitInputValue() leaves value = v and
\* inputValue = format(v), in every numeral system and with percent and
\* accounting formats.
C17_RoundTrip ==
    [][\A v \in RoundTripValues :
           /\ typedNumber(format(v)) = v
           /\ ~controlled /\ lastOp = "setValue" /\ lastText = format(v)
                  /\ lastOp' = "commitInputValue" =>
                  numberValue' = v /\ inputValue' = format(v)]_vars

\* v has no digit beyond those the formatter shows
Shown(v) ==
    v % (Scale \div Pow10(IF formatStyle = "percent" THEN PercentShift
                          ELSE IF formatStyle = "accounting" THEN CurrencyFractionDigits
                          ELSE MaxFractionDigits)) = 0

\* C17, amended: so it is for the v that the formatter shows without
\* rounding; the controlled field shows format(v) and keeps the value of its
\* owner.
C17_RoundTripOfShownValues ==
    [][\A v \in RoundTripValues :
           Shown(v) =>
               /\ typedNumber(format(v)) = v
               /\ lastOp = "setValue" /\ lastText = format(v)
                      /\ lastOp' = "commitInputValue" =>
                      /\ numberValue' = IF controlled THEN numberValue ELSE v
                      /\ inputValue' = format(v)]_vars

C17_Witness ==
    /\ lastOp = "commitInputValue" /\ ~controlled /\ formatStyle = "accounting"
    /\ valueBefore # numberValue /\ ~isNaN(tempBefore)
    /\ numberValue = -Units(5)
    /\ inputValue = <<"(", "$", "5", ".", "0", "0", ")">>

\* C21, as claimed (the owner writes last): when the owner passes another
\* value after a keystroke, the commit that follows leaves value and
\* inputValue at what the owner passed, clamped as every commit does, not at
\* what was typed before.
C21_LastWriteWins ==
    [][lastOp = "owner" /\ lastOp' = "commitInputValue" =>
           /\ numberValue' = numberValue
           /\ inputValue' = formatOrEmpty(clamp(numberValue, minValue, maxValue, step))]_vars

\* the number a step operation hands to setNumberValue is stored by the
\* uncontrolled field and reported to the owner when it is another number
Steps(result) ==
    /\ numberValue' = IF controlled THEN numberValue ELSE result
    /\ result # numberValue => passed' = <<result>>

\* C22: when a number is pending, increment() and decrement() step from it,
\* not from value nor from the seed of the empty field, and clear it, so the
\* next increment() or decrement() steps from value.
C22_PendingIsBase ==
    [][/\ ~isNaN(tempNum) /\ lastOp' = "increment" =>
              /\ Steps(clamp(handleDecimalOperation("+", tempNum, stepOrOne),
                             minValue, maxValue, step))
              /\ isNaN(tempNum')
       /\ ~isNaN(tempNum) /\ lastOp' = "decrement" =>
              /\ Steps(clamp(handleDecimalOperation("-", tempNum, stepOrOne),
                             minValue, maxValue, step))
              /\ isNaN(tempNum')
       /\ lastOp \in {"increment", "decrement"} /\ ~isNaN(numberValue) =>
              /\ isNaN(tempNum)
              /\ lastOp' = "increment" =>
                     Steps(clamp(handleDecimalOperation("+", numberValue, stepOrOne),
                                 minValue, maxValue, step))
              /\ lastOp' = "decrement" =>
                     Steps(clamp(handleDecimalOperation("-", numberValue, stepOrOne),
                                 minValue, maxValue, step))]_vars

C22_Witness ==
    /\ lastOp = "increment" /\ ~controlled
    /\ ~isNaN(tempBefore) /\ ~isNaN(valueBefore)
    /\ tempBefore # valueBefore
    /\ numberValue = tempBefore + stepOrOne
    /\ numberValue # clamp(valueBefore + stepOrOne, minValue, maxValue, step)
    /\ isNaN(tempNum)

\* C23, as claimed: after commitInputValue, increment, decrement,
\* incrementToMax and decrementToMin nothing is pending.
C23_NothingPendingAfterOperation ==
    lastOp \in StepOperations \cup {"commitInputValue"} => isNaN(tempNum)

RECURSIVE IsSubsequence(_, _)
IsSubsequence(short, long) ==
    IF short = <<>> THEN TRUE
    ELSE IF long = <<>> THEN FALSE
    ELSE IF Head(short) = Head(long) THEN IsSubsequence(Tail(short), Tail(long))
    ELSE IsSubsequence(short, Tail(long))

\* C24: after a setValue(text) that updates the display, every character of
\* inputValue is a digit of the detected numeral system, the resolved minus
\* or plus sign or an allowed character; every other character of the text
\* is removed, and the characters kept stand in the order of the text.
C24_OnlyAllowedCharactersKept ==
    [][lastOp' = "setValue" =>
           LET sym == symbols(minValue, maxValue)
               typed == typedNumber(lastText')
               allowed == Range(numberingSystems[lastSystem']) \cup Range(sym.minusSign)
                              \cup Range(sym.plusSign) \cup sym.validCharacters
               repeatable == Range(sym.minusSign) \cup Range(sym.plusSign)
                                 \cup Range(sym.decimal)
           IN  isNaN(typed) \/ (minValue <= typed /\ typed <= maxValue) =>
                   /\ Range(inputValue') \subseteq allowed
                   /\ IsSubsequence(inputValue', lastText')
                   /\ DropAll(inputValue', repeatable)
                          = DropAll(KeepOnly(lastText', allowed), repeatable)]_vars

C24_Witness ==
    /\ lastOp = "setValue" /\ lastText = <<"5", "han3">>
    /\ lastSystem = "hanidec"
    /\ inputValue = <<"han3">>
    /\ tempBefore = tempNum

\* the digits of every known numeral system
Numerals == UNION {Range(numberingSystems[system]) : system \in DOMAIN numberingSystems}

\* C25, as claimed: after any setValue call every digit in inputValue is a
\* digit of currentNumeralSystem, also when the text is out of range or has
\* no digit.
C25_DisplayInCurrentSystem ==
    lastOp = "setValue" =>
        \A c \in Range(inputValue) :
            c \in Numerals => c \in Range(numberingSystems[currentNumeralSystem])

\* C26, as claimed: a second commitInputValue() right after the first leaves
\* value, inputValue and the pending number as the first left them, in the
\* uncontrolled field and in the controlled field whose owner keeps the
\* value.
C26_CommitIdempotent ==
    [][lastOp = "commitInputValue" /\ lastOp' = "commitInputValue" =>
           /\ numberValue' = numberValue
           /\ inputValue' = inputValue
           /\ tempNum' = tempNum]_vars

\* C27, as claimed (for a value of the owner that clamp leaves as it is): in
\* the controlled field whose owner keeps the value, inputValue after
\* commitInputValue(), increment() and decrement() is the formatted form of
\* value.
C27_ControlledDisplayIsValue ==
    [][controlled /\ clamp(numberValue, minValue, maxValue, step) = numberValue
         /\ lastOp' \in {"commitInputValue", "increment", "decrement"} =>
           inputValue' = formatOrEmpty(numberValue')]_vars

\* C28: onChange is invoked by commitInputValue, increment, decrement,
\* incrementToMax and decrementToMin only; setValue never invokes it,
\* whatever the text.
C28_TypingNeverNotifies ==
    /\ notified # <<>> \/ passed # <<>> =>
           lastOp \in StepOperations \cup {"commitInputValue"}
    /\ lastOp = "setValue" => notified = <<>> /\ passed = <<>>

C28_Witness ==
    /\ lastOp = "setValue" /\ lastText = <<"9">>
    /\ ~isNaN(tempNum) /\ tempNum # numberValue /\ ~isNaN(lastValDispatched)
    /\ inputValue = lastText
    /\ notified = <<>>

====

